---- MODULE Spec2Model ----
(***************************************************************************)
(* Model of ETLGcpLocal/etl.py: an incremental copy of a list of tables    *)
(* from a source PostgreSQL database to a destination database.  For each  *)
(* table the script reads MAX(timestamp) of the destination, selects the   *)
(* newer source rows and appends them to the destination.  Every error     *)
(* handler of the script ends the process with sys.exit(1).                *)
(*                                                                         *)
(* A source row is identified by its insertion position in its table; a   *)
(* row is the record [id, ts].  Timestamps are the values 0..MaxTs of an   *)
(* orderable column type; 0 is the type's zero value (falsy in Python),    *)
(* NULL is Python's None.                                                  *)
(***************************************************************************)
EXTENDS Integers, Sequences, FiniteSets, TLC

\* ---- bounds ----
MaxTs == 2
MaxRows == 3
MaxRuns == 2

\* ---- program constants ----
NULL == -1

tables == <<"dht_mq_ldr", "multi_sensor_weather_data">>

EnvVars == <<"SOURCE_DB_HOST", "SOURCE_DB_NAME", "SOURCE_DB_USER",
             "SOURCE_DB_PASSWORD", "SOURCE_DB_PORT", "DEST_DB_URL">>

TableSet == {tables[k] : k \in 1..Len(tables)}
EnvSet == {EnvVars[k] : k \in 1..Len(EnvVars)}
Ts == 0..MaxTs

VARIABLES
  source,          \* source database: table -> sequence of timestamps (row k has id k)
  dest,            \* destination database: table -> sequence of rows [id, ts]
  unset,           \* environment variables that are missing or empty for this process
  pc,              \* position of the process
  i,               \* index into tables of the table being processed
  last_timestamp,  \* main's local last_timestamp
  df,              \* main's local df: the fetched rows
  exit_status,     \* NULL while running or before the first run, else 0 or 1
  runs,            \* number of processes started so far
  sync,            \* per table, what this run did: steps, cursor, counts, error
  run_error,       \* the step of this run that reported an error, or "none"
  prev             \* exit status and per-table fetch positions of the previous run

vars == <<source, dest, unset, pc, i, last_timestamp, df, exit_status, runs,
          sync, run_error, prev>>

\* ---- pure helpers ----

\* number of rows in the source database, over all tables
RECURSIVE SumLen(_)
SumLen(k) == IF k = 0 THEN 0 ELSE Len(source[tables[k]]) + SumLen(k - 1)
TotalRows == SumLen(Len(tables))

\* the rows of a source table, with their identities
SourceRows(t) == [k \in 1..Len(source[t]) |-> [id |-> k, ts |-> source[t][k]]]

RECURSIVE SeqMax(_)
SeqMax(s) ==
  IF s = <<>> THEN NULL
  ELSE LET m == SeqMax(Tail(s))
       IN IF m = NULL \/ Head(s).ts > m THEN Head(s).ts ELSE m

\* SELECT MAX(timestamp_column) FROM table_name: None on an empty table
MaxTimestamp(rows) == SeqMax(rows)

\* Python truthiness of the scalar returned by MAX(): None and the zero value are falsy
Truthy(v) == v # NULL /\ v # 0

\* the statement built at lines 63-65: with the WHERE filter, or the whole table
Query(w) == IF Truthy(w) THEN "filtered" ELSE "full"

\* variant: the WHERE query is issued always; a comparison with NULL selects no row
SelectFilterOnly(rows, w) ==
  IF w = NULL THEN <<>> ELSE SelectSeq(rows, LAMBDA r : r.ts > w)
\* "SELECT * FROM t WHERE ts > %s" if last_timestamp else "SELECT * FROM t"
SelectIncremental(rows, w) ==
  IF Query(w) = "filtered" THEN SelectSeq(rows, LAMBDA r : r.ts > w) ELSE rows

\* variant: to_sql with if_exists='replace'
Replace_to_sql(old, batch) == batch
\* variant: the last row of the frame is not written
AppendDropLast(old, batch) == old \o SubSeq(batch, 1, Len(batch) - 1)
\* df.to_sql(table_name, engine, if_exists='append'): all rows of df after the existing ones
Append_to_sql(old, batch) == old \o batch

NoSync == [steps |-> <<>>, wm_before |-> NULL, query |-> "none", rows_fetched |-> NULL,
           rows_copied |-> NULL, src_at_fetch |-> NULL]

cur == tables[i]

Step(t, name) == [sync EXCEPT ![t].steps = Append(@, name)]

\* variant: an error of a table's step is logged and the loop goes on
ExitContinue(step) ==
  /\ run_error' = step
  /\ IF pc \in {"resolve", "fetch", "load", "verify"} /\ i < Len(tables)
       THEN /\ pc' = "resolve"
            /\ i' = i + 1
            /\ exit_status' = NULL
       ELSE /\ pc' = "stopped"
            /\ i' = i
            /\ exit_status' = 1
  /\ last_timestamp' = NULL
  /\ df' = <<>>
\* variant: the except blocks end the process with status 0
ExitZero(step) ==
  /\ run_error' = step
  /\ pc' = "stopped"
  /\ exit_status' = 0
  /\ i' = i
  /\ last_timestamp' = NULL
  /\ df' = <<>>
\* sys.exit(1) in an except block: the process ends, nothing later runs
Exit1(step) ==
  /\ run_error' = step
  /\ pc' = "stopped"
  /\ exit_status' = 1
  /\ i' = i
  /\ last_timestamp' = NULL
  /\ df' = <<>>

\* the for loop of main moves to the next table, or main returns (exit status 0)
NextTable ==
  /\ last_timestamp' = NULL
  /\ df' = <<>>
  /\ IF i < Len(tables)
       THEN /\ i' = i + 1
            /\ pc' = "resolve"
            /\ exit_status' = exit_status
       ELSE /\ i' = i
            /\ pc' = "stopped"
            /\ exit_status' = 0

\* ---- initial state: both databases exist, nothing copied yet, no process ----
Init ==
  /\ source = [t \in TableSet |-> <<>>]
  /\ dest = [t \in TableSet |-> <<>>]
  /\ unset = {}
  /\ pc = "stopped"
  /\ i = 1
  /\ last_timestamp = NULL
  /\ df = <<>>
  /\ exit_status = NULL
  /\ runs = 0
  /\ sync = [t \in TableSet |-> NoSync]
  /\ run_error = "none"
  /\ prev = [exit_status |-> NULL, src_at_fetch |-> [t \in TableSet |-> NULL]]

\* ---- environment: a writer appends a row to a source table ----
\* the timestamp column is non-decreasing over inserts; rows are never changed
InsertSource(t, ts) ==
  /\ TotalRows < MaxRows
  /\ IF source[t] = <<>> THEN TRUE ELSE ts >= source[t][Len(source[t])]
  /\ source' = [source EXCEPT ![t] = Append(@, ts)]
  /\ UNCHANGED <<dest, unset, pc, i, last_timestamp, df, exit_status, runs,
                 sync, run_error, prev>>

\* ---- the process ----
\* python etl.py is started with some environment
StartRun(missing) ==
  /\ pc = "stopped"
  /\ runs < MaxRuns
  /\ runs' = runs + 1
  /\ unset' = missing
  /\ pc' = "config"
  /\ i' = 1
  /\ exit_status' = NULL
  /\ run_error' = "none"
  /\ sync' = [t \in TableSet |-> NoSync]
  /\ prev' = [exit_status |-> exit_status,
              src_at_fetch |-> [t \in TableSet |-> sync[t].src_at_fetch]]
  /\ UNCHANGED <<source, dest, last_timestamp, df>>

\* variant: get_env_var logs a missing value and returns it
LoadConfigLenient ==
  /\ pc = "config"
  /\ pc' = "engine"
  /\ UNCHANGED <<i, last_timestamp, df, exit_status, run_error>>
  /\ UNCHANGED <<source, dest, unset, runs, sync, prev>>
\* module level: get_env_var for the five source parameters and DEST_DB_URL
LoadConfig ==
  /\ pc = "config"
  /\ IF unset # {}
       THEN Exit1("config")
       ELSE /\ pc' = "engine"
            /\ UNCHANGED <<i, last_timestamp, df, exit_status, run_error>>
  /\ UNCHANGED <<source, dest, unset, runs, sync, prev>>

\* create_engine_for_other_postgres
CreateEngine(ok) ==
  /\ pc = "engine"
  /\ IF ok
       THEN /\ pc' = "connect"
            /\ UNCHANGED <<i, last_timestamp, df, exit_status, run_error>>
       ELSE Exit1("engine")
  /\ UNCHANGED <<source, dest, unset, runs, sync, prev>>

\* connect_to_postgres, then the for loop starts at the first table
ConnectSource(ok) ==
  /\ pc = "connect"
  /\ IF ok
       THEN /\ pc' = "resolve"
            /\ i' = 1
            /\ UNCHANGED <<last_timestamp, df, exit_status, run_error>>
       ELSE Exit1("connect")
  /\ UNCHANGED <<source, dest, unset, runs, sync, prev>>

\* variant: a failed MAX query is logged and None is returned
ResolveDefaultNone(ok) ==
  /\ pc = "resolve"
  /\ last_timestamp' = IF ok THEN MaxTimestamp(dest[cur]) ELSE NULL
  /\ pc' = "fetch"
  /\ sync' = [sync EXCEPT ![cur].steps = Append(@, "resolve"),
                          ![cur].wm_before = IF ok THEN MaxTimestamp(dest[cur]) ELSE NULL]
  /\ run_error' = IF ok THEN run_error ELSE "resolve"
  /\ UNCHANGED <<i, df, exit_status>>
  /\ UNCHANGED <<source, dest, unset, runs, prev>>
\* variant: the watermark is read once, for the first table, and used for every table
ResolveFirstTable(ok) ==
  /\ pc = "resolve"
  /\ IF ok
       THEN /\ last_timestamp' = MaxTimestamp(dest[tables[1]])
            /\ pc' = "fetch"
            /\ sync' = [sync EXCEPT ![cur].steps = Append(@, "resolve"),
                                    ![cur].wm_before = MaxTimestamp(dest[tables[1]])]
            /\ UNCHANGED <<i, df, exit_status, run_error>>
       ELSE /\ Exit1("resolve")
            /\ sync' = Step(cur, "resolve")
  /\ UNCHANGED <<source, dest, unset, runs, prev>>
\* last_timestamp = get_latest_timestamp(dest_engine, table_name, timestamp_column)
ResolveWatermark(ok) ==
  /\ pc = "resolve"
  /\ IF ok
       THEN /\ last_timestamp' = MaxTimestamp(dest[cur])
            /\ pc' = "fetch"
            /\ sync' = [sync EXCEPT ![cur].steps = Append(@, "resolve"),
                                    ![cur].wm_before = MaxTimestamp(dest[cur])]
            /\ UNCHANGED <<i, df, exit_status, run_error>>
       ELSE /\ Exit1("resolve")
            /\ sync' = Step(cur, "resolve")
  /\ UNCHANGED <<source, dest, unset, runs, prev>>

\* variant: the fetched rows are removed from the source table
FetchAndDelete(ok) ==
  /\ pc = "fetch"
  /\ IF ok
       THEN /\ df' = SelectIncremental(SourceRows(cur), last_timestamp)
            /\ source' = [source EXCEPT ![cur] =
                 SubSeq(@, 1, Len(@) - Len(SelectIncremental(SourceRows(cur), last_timestamp)))]
            /\ pc' = "load"
            /\ sync' = [sync EXCEPT
                 ![cur].steps = Append(@, "fetch"),
                 ![cur].query = Query(last_timestamp),
                 ![cur].rows_fetched = Len(SelectIncremental(SourceRows(cur), last_timestamp)),
                 ![cur].src_at_fetch = Len(source[cur])]
            /\ UNCHANGED <<i, last_timestamp, exit_status, run_error>>
       ELSE /\ Exit1("fetch")
            /\ sync' = Step(cur, "fetch")
            /\ UNCHANGED source
  /\ UNCHANGED <<dest, unset, runs, prev>>
\* df = fetch_incremental_data(source_conn, table_name, timestamp_column, last_timestamp)
FetchIncremental(ok) ==
  /\ pc = "fetch"
  /\ IF ok
       THEN /\ df' = SelectIncremental(SourceRows(cur), last_timestamp)
            /\ pc' = "load"
            /\ sync' = [sync EXCEPT
                 ![cur].steps = Append(@, "fetch"),
                 ![cur].query = Query(last_timestamp),
                 ![cur].rows_fetched = Len(SelectIncremental(SourceRows(cur), last_timestamp)),
                 ![cur].src_at_fetch = Len(source[cur])]
            /\ UNCHANGED <<i, last_timestamp, exit_status, run_error>>
       ELSE /\ Exit1("fetch")
            /\ sync' = Step(cur, "fetch")
  /\ UNCHANGED <<source, dest, unset, runs, prev>>

\* variant: no early return on an empty frame
CopyAlwaysVerify(ok) ==
  /\ pc = "load"
  /\ IF ok
       THEN /\ dest' = [dest EXCEPT ![cur] = Append_to_sql(@, df)]
            /\ sync' = [sync EXCEPT ![cur].steps = Append(@, "load"),
                                    ![cur].rows_copied = Len(df)]
            /\ pc' = "verify"
            /\ UNCHANGED <<i, last_timestamp, df, exit_status, run_error>>
       ELSE /\ Exit1("load")
            /\ sync' = Step(cur, "load")
            /\ UNCHANGED dest
  /\ UNCHANGED <<source, unset, runs, prev>>
\* variant: to_sql with if_exists='replace', called before the empty test
CopyDataReplace(ok) ==
  /\ pc = "load"
  /\ IF ok
       THEN /\ dest' = [dest EXCEPT ![cur] = df]
            /\ sync' = [sync EXCEPT ![cur].steps = Append(@, "load"),
                                    ![cur].rows_copied = Len(df)]
            /\ IF df = <<>>
                 THEN NextTable
                 ELSE /\ pc' = "verify"
                      /\ UNCHANGED <<i, last_timestamp, df, exit_status>>
            /\ UNCHANGED run_error
       ELSE /\ Exit1("load")
            /\ sync' = Step(cur, "load")
            /\ UNCHANGED dest
  /\ UNCHANGED <<source, unset, runs, prev>>
\* copy_data_to_other_postgres up to and including df.to_sql
CopyData(ok) ==
  /\ pc = "load"
  /\ IF df = <<>>
       THEN \* "No new data to copy": return before the try block
            /\ ok
            /\ sync' = [sync EXCEPT ![cur].steps = Append(@, "load"),
                                    ![cur].rows_copied = 0]
            /\ NextTable
            /\ UNCHANGED <<dest, run_error>>
       ELSE IF ok
         THEN /\ dest' = [dest EXCEPT ![cur] = Append_to_sql(@, df)]
              /\ sync' = [sync EXCEPT ![cur].steps = Append(@, "load"),
                                      ![cur].rows_copied = Len(df)]
              /\ pc' = "verify"
              /\ UNCHANGED <<i, last_timestamp, df, exit_status, run_error>>
         ELSE /\ Exit1("load")
              /\ sync' = Step(cur, "load")
              /\ UNCHANGED dest
  /\ UNCHANGED <<source, unset, runs, prev>>

\* variant: a failed check after the copy is logged only
VerifyBestEffort(ok) ==
  /\ pc = "verify"
  /\ sync' = Step(cur, "verify")
  /\ NextTable
  /\ run_error' = IF ok THEN run_error ELSE "verify"
  /\ UNCHANGED <<source, dest, unset, runs, prev>>
\* the rest of copy_data_to_other_postgres: get_latest_timestamp after the copy
VerifyWatermark(ok) ==
  /\ pc = "verify"
  /\ sync' = Step(cur, "verify")
  /\ IF ok
       THEN /\ NextTable
            /\ UNCHANGED run_error
       ELSE Exit1("verify")
  /\ UNCHANGED <<source, dest, unset, runs, prev>>

Next ==
  \/ \E t \in TableSet, ts \in Ts : InsertSource(t, ts)
  \/ \E missing \in {{}} \cup {{v} : v \in EnvSet} : StartRun(missing)
  \/ LoadConfig
  \/ \E ok \in BOOLEAN : CreateEngine(ok)
  \/ \E ok \in BOOLEAN : ConnectSource(ok)
  \/ \E ok \in BOOLEAN : ResolveWatermark(ok)
  \/ \E ok \in BOOLEAN : FetchIncremental(ok)
  \/ \E ok \in BOOLEAN : CopyData(ok)
  \/ \E ok \in BOOLEAN : VerifyWatermark(ok)

Spec == Init /\ [][Next]_vars

\* ---- vocabulary of the properties ----

TableSteps == <<"resolve", "fetch", "load", "verify">>

IsPrefix(s, f) == Len(s) <= Len(f) /\ s = SubSeq(f, 1, Len(s))

\* the process has ended (by returning from main or by sys.exit)
RunEnded == pc = "stopped" /\ exit_status # NULL

\* a step of table t reported an error in this run
TableFailed(t) ==
  /\ run_error \in {"resolve", "fetch", "load", "verify"}
  /\ cur = t

\* table t got through its load in this run and main has moved past it
TableDone(t) ==
  /\ sync[t].rows_copied # NULL
  /\ ~(pc = "verify" /\ cur = t)
  /\ ~TableFailed(t)

LaterUntouched(k) == \A j \in (k + 1)..Len(tables) : sync[tables[j]] = NoSync

\* how many rows of a destination table are copies of source row k
Copies(t, k) == Cardinality({n \in 1..Len(dest[t]) : dest[t][n].id = k})

\* the source rows a table's fetch saw
SeenAtFetch(t) == SubSeq(SourceRows(t), 1, sync[t].src_at_fetch)

\* ---- C1 ----
\* C1: no duplication: every source row is in its destination table at most
\* once, whatever runs and (non-decreasing) source inserts have happened.
C1_NoDuplication ==
  \A t \in TableSet : \A k \in 1..Len(source[t]) : Copies(t, k) <= 1

\* ---- C2 ----
\* C2: idempotency: when the previous run ended with success and no row was
\* inserted into a table's source since that run fetched it, this run's fetch
\* of the table returns an empty batch and its load appends zero rows.
C2_Idempotent ==
  \A t \in TableSet :
    (/\ prev.exit_status = 0
     /\ sync[t].rows_fetched # NULL
     /\ sync[t].src_at_fetch = prev.src_at_fetch[t])
    => (sync[t].rows_fetched = 0 /\ sync[t].rows_copied \in {NULL, 0})

\* ---- C3 ----
\* C3 as stated: when a run has ended and one table's sync failed, every other
\* table, before and after it in the list, completed in that run.
C3_FailureIsolation ==
  \A t \in TableSet :
    (RunEnded /\ TableFailed(t)) => \A u \in TableSet \ {t} : TableDone(u)

\* C3 amended: when a table's sync fails the process ends with status 1; the
\* tables before it in the list completed, the tables after it are not
\* processed at all in that run.
C3_FailStop ==
  \A k \in 1..Len(tables) :
    TableFailed(tables[k]) =>
      /\ RunEnded /\ exit_status = 1
      /\ \A j \in 1..(k - 1) : TableDone(tables[j])
      /\ LaterUntouched(k)

C3_Witness ==
  /\ RunEnded
  /\ run_error = "fetch"
  /\ i = 1
  /\ source[tables[2]] # <<>>

\* ---- C4 ----
\* C4: strict-inequality boundary: with a present (non-null) watermark w, every
\* fetched row has a timestamp strictly greater than w.
C4_StrictBoundary ==
  (pc = "load" /\ last_timestamp # NULL)
    => \A n \in 1..Len(df) : df[n].ts > last_timestamp

\* ---- C5 ----
\* C5: full copy on empty destination: when a table's destination was empty at
\* the start of its sync (watermark absent) and the load succeeded, the
\* destination holds exactly the rows the source held at fetch time.
C5_FullCopyOnEmpty ==
  \A t \in TableSet :
    (sync[t].rows_copied # NULL /\ sync[t].wm_before = NULL)
      => dest[t] = SeenAtFetch(t)

C5_Witness ==
  \E t \in TableSet :
    /\ sync[t].rows_copied # NULL
    /\ sync[t].wm_before = NULL
    /\ sync[t].rows_copied >= 2
    /\ Len(source[t]) > sync[t].src_at_fetch

\* ---- C6 ----
\* C6: run result: for a completed table sync, the number of rows copied is the
\* number of source rows (at fetch time) strictly newer than the watermark
\* before, all of them when it was absent, and the destination watermark after
\* is the maximum source timestamp (at fetch time).
C6_RunResult ==
  \A t \in TableSet :
    TableDone(t) =>
      /\ sync[t].rows_copied =
           Len(SelectSeq(SeenAtFetch(t),
                         LAMBDA r : sync[t].wm_before = NULL \/ r.ts > sync[t].wm_before))
      /\ MaxTimestamp(dest[t]) = MaxTimestamp(SeenAtFetch(t))

\* ---- C7 ----
\* tables are taken in list order, one at a time, and a table's steps are
\* taken in the order resolve, fetch, load, verify
C7_Ordered ==
  /\ \A t \in TableSet : IsPrefix(sync[t].steps, TableSteps)
  /\ \A k \in 2..Len(tables) :
       sync[tables[k]].steps # <<>> => TableDone(tables[k - 1])

\* C7 as stated: steps are ordered and a completed table has gone through all
\* four steps, also when its batch was empty.
C7_AllStepsAlways ==
  /\ C7_Ordered
  /\ \A t \in TableSet : TableDone(t) => sync[t].steps = TableSteps

\* C7 amended: steps are ordered; a completed table has gone through resolve,
\* fetch, load, verify when its batch was not empty, and through resolve,
\* fetch, load only (no verification) when its batch was empty.
C7_StepOrder ==
  /\ C7_Ordered
  /\ \A t \in TableSet :
       TableDone(t) =>
         sync[t].steps = IF sync[t].rows_fetched = 0
                           THEN <<"resolve", "fetch", "load">>
                           ELSE TableSteps

C7_Witness ==
  /\ RunEnded
  /\ TableDone(tables[1]) /\ sync[tables[1]].rows_fetched = 0
  /\ TableDone(tables[2]) /\ sync[tables[2]].rows_fetched > 0

\* ---- C8 ----
\* C8: empty-batch no-op: the load of an empty batch writes 0 rows and leaves
\* the destination database, and so the table's watermark, unchanged.
C8_EmptyBatchNoOp ==
  [][(pc = "load" /\ df = <<>> /\ pc' # "load")
       => /\ dest' = dest
          /\ sync'[cur].rows_copied = 0
          /\ MaxTimestamp(dest'[cur]) = MaxTimestamp(dest[cur])]_vars

C8_Witness ==
  \E t \in TableSet :
    /\ sync[t].rows_fetched = 0
    /\ sync[t].rows_copied = 0
    /\ dest[t] # <<>>

\* ---- C9 ----
\* C9 as stated: a failure of the watermark check after a load does not make
\* the run report failure.
C9_VerifyBestEffort == run_error = "verify" => exit_status # 1

\* C9 amended: when the watermark check after a load fails, the process ends
\* at once with status 1: the loaded rows stay in the destination and no later
\* table is processed.
C9_VerifyFailureExits ==
  run_error = "verify" =>
    /\ RunEnded /\ exit_status = 1
    /\ sync[cur].rows_copied > 0
    /\ Len(dest[cur]) >= sync[cur].rows_copied
    /\ LaterUntouched(i)

C9_Witness ==
  /\ run_error = "verify"
  /\ i = 1
  /\ dest[tables[1]] # <<>>
  /\ source[tables[2]] # <<>>

\* ---- C10 ----
\* C10 as stated: an ended run has failure status exactly when some table's
\* sync failed.
C10_ExitIffTableFailed ==
  RunEnded => (exit_status = 1 <=> \E t \in TableSet : TableFailed(t))

\* C10 amended: an ended run has failure status exactly when some step of it
\* reported an error (configuration, engine creation, source connection, or a
\* table's resolve, fetch, load or post-load check), and success status
\* exactly when every table completed.
C10_ExitStatus ==
  RunEnded =>
    /\ exit_status = 1 <=> run_error # "none"
    /\ exit_status = 0 <=> \A t \in TableSet : TableDone(t)

C10_Witness ==
  /\ RunEnded
  /\ exit_status = 1
  /\ run_error = "connect"

\* ---- C11 ----
\* C11: a failed watermark resolution is fatal for the table: the run has
\* ended, the table's only step is the failed resolve, no fetch was issued
\* (neither query, so no full copy) and nothing was loaded for it.
C11_ResolveFailureFatal ==
  run_error = "resolve" =>
    /\ RunEnded
    /\ sync[cur].steps = <<"resolve">>
    /\ sync[cur].query = "none"
    /\ sync[cur].rows_fetched = NULL
    /\ sync[cur].rows_copied = NULL

C11_Witness ==
  /\ run_error = "resolve"
  /\ dest[cur] # <<>>
  /\ Len(source[cur]) > Len(dest[cur])

\* ---- C12 ----
\* C12: configuration fail-fast: with a required value missing or empty the
\* process never gets past the configuration lookup: no engine is created, no
\* connection is opened, no table is touched, and the run ends with status 1.
C12_ConfigFailFast ==
  unset # {} =>
    /\ pc \in {"config", "stopped"}
    /\ \A t \in TableSet : sync[t] = NoSync
    /\ pc = "stopped" => (exit_status = 1 /\ run_error = "config")

C12_Witness ==
  /\ unset # {}
  /\ RunEnded
  /\ \E t \in TableSet : Len(source[t]) > Len(dest[t])

\* ---- C13 ----
\* C13: strictly additive destination: every step leaves each destination
\* table's earlier rows in place and unchanged (the old table is a prefix of
\* the new one).
C13_Additive ==
  [][\A t \in TableSet : IsPrefix(dest[t], dest'[t])]_vars

C13_Witness ==
  \E t \in TableSet :
    /\ sync[t].wm_before # NULL
    /\ sync[t].rows_copied # NULL
    /\ sync[t].rows_copied > 0
    /\ Len(dest[t]) > sync[t].rows_copied

\* ---- C14 ----
\* C14: the unfiltered full-table query is issued exactly when the resolved
\* watermark is null; every non-null watermark, the zero value included, gets
\* the strictly-greater-than filter.
C14_FullIffAbsent ==
  \A t \in TableSet :
    sync[t].query # "none" =>
      (sync[t].query = "full" <=> sync[t].wm_before = NULL)

\* ---- C15 ----
\* C15: the watermark never goes backwards: no step lowers a destination
\* table's maximum timestamp (absent counted as lowest), and after a table's
\* load the destination watermark is at least the watermark resolved before.
C15_WatermarkMonotone ==
  /\ [](\A t \in TableSet :
          sync[t].rows_copied # NULL => MaxTimestamp(dest[t]) >= sync[t].wm_before)
  /\ [][\A t \in TableSet : MaxTimestamp(dest'[t]) >= MaxTimestamp(dest[t])]_vars

C15_Witness ==
  \E t \in TableSet :
    /\ TableDone(t)
    /\ sync[t].wm_before # NULL
    /\ MaxTimestamp(dest[t]) > sync[t].wm_before

\* ---- C16 ----
\* C16: the cursor used for a table's fetch is the maximum timestamp of that
\* same table's destination, as resolved in this run for this table.
C16_FreshPerTable ==
  pc \in {"fetch", "load"} =>
    /\ last_timestamp = MaxTimestamp(dest[cur])
    /\ last_timestamp = sync[cur].wm_before

C16_Witness ==
  /\ pc = "fetch"
  /\ i = 2
  /\ runs = 2
  /\ last_timestamp # NULL
  /\ last_timestamp # MaxTimestamp(dest[tables[1]])

\* ---- C17 ----
\* C17: the source is read-only for the process: a step that moves the process
\* or writes the destination or its records leaves every source table as it was.
C17_SourceReadOnly ==
  [][(pc' # pc \/ i' # i \/ dest' # dest \/ sync' # sync \/ runs' # runs)
       => source' = source]_vars

C17_Witness ==
  /\ RunEnded
  /\ exit_status = 0
  /\ \A t \in TableSet : sync[t].rows_copied # NULL /\ sync[t].rows_copied > 0

\* ---- C18 ----
\* C18 as stated: after a table's sync has completed, every source row that
\* was in the table at fetch time is in the destination table.
C18_Complete ==
  \A t \in TableSet :
    TableDone(t) => \A k \in 1..sync[t].src_at_fetch : Copies(t, k) >= 1

StrictlyIncreasing(rows) ==
  \A k \in 1..(Len(rows) - 1) : rows[k].ts < rows[k + 1].ts

\* C18 amended: the same, provided the timestamps of the table's source rows
\* are strictly increasing over inserts (no two rows share a timestamp).
C18_CompleteWhenStrict ==
  \A t \in TableSet :
    (TableDone(t) /\ StrictlyIncreasing(SeenAtFetch(t)))
      => \A k \in 1..sync[t].src_at_fetch : Copies(t, k) >= 1

C18_Witness ==
  \E t \in TableSet :
    /\ TableDone(t)
    /\ sync[t].wm_before # NULL
    /\ sync[t].src_at_fetch >= 2
    /\ StrictlyIncreasing(SeenAtFetch(t))
    /\ sync[t].rows_copied > 0

\* ---- C19 ----
\* C19: fail-stop: once a step has reported an error the process has ended
\* with status 1; the failed step is the last step of its table, no later
\* table is touched, and every earlier table still holds the rows its load
\* appended.  An error before the loop leaves every table untouched.
C19_FailStopAll ==
  run_error # "none" =>
    /\ RunEnded /\ exit_status = 1
    /\ IF run_error \in {"config", "engine", "connect"}
         THEN \A t \in TableSet : sync[t] = NoSync
         ELSE /\ sync[cur].steps # <<>>
              /\ sync[cur].steps[Len(sync[cur].steps)] = run_error
              /\ LaterUntouched(i)
              /\ \A j \in 1..(i - 1) :
                   LET t == tables[j]
                       n == sync[t].rows_copied
                   IN /\ n # NULL
                      /\ Len(dest[t]) >= n
                      /\ SubSeq(dest[t], Len(dest[t]) - n + 1, Len(dest[t]))
                           = SelectIncremental(SeenAtFetch(t), sync[t].wm_before)

C19_Witness ==
  /\ run_error = "fetch"
  /\ i = 2
  /\ sync[tables[1]].rows_copied > 0

TypeOK ==
  /\ pc \in {"stopped", "config", "engine", "connect", "resolve", "fetch", "load", "verify"}
  /\ i \in 1..Len(tables)
  /\ exit_status \in {NULL, 0, 1}
  /\ last_timestamp \in Ts \cup {NULL}
  /\ runs \in 0..MaxRuns
  /\ TotalRows <= MaxRows
====
